---- MODULE Spec2Model ----
(***************************************************************************)
(* Verification model of the virtual-arm viewer.                           *)
(*                                                                         *)
(*   Spec      the viewer program (src/main.py main, and the modular       *)
(*             variant src/module/main.py): startup, the frame loop with   *)
(*             its event handlers, the tracking update, the 3D pass, the   *)
(*             overlays, presentation and shutdown.                        *)
(*   SpecMesh  OBJLoader (src/main.py, identical in src/render.py, and the *)
(*             variant of src/module/model_module.py): load_obj,           *)
(*             create_vbo, render.                                         *)
(*                                                                         *)
(* Fixed point.  Hand positions are held in units of 1/PosDen, rotations   *)
(* and zoom in units of 1/OutDen, so that every float the program computes *)
(* from the inputs of the model is represented exactly.                    *)
(***************************************************************************)
EXTENDS Integers, Sequences, FiniteSets, TLC

VARIABLES
    variant,            \* which viewer runs: "main" (src/main.py) or "module" (src/module/main.py)
    pc,                 \* position of the program in main()
    rotation_x,         \* main(): rotation_x, in 1/OutDen degrees
    rotation_y,         \* main(): rotation_y, in 1/OutDen degrees
    zoom,               \* main(): zoom, in 1/OutDen units
    use_hand_tracking,  \* main(): TRUE = TRACKING, FALSE = MANUAL
    mouse_down,         \* main(): left button held
    last_mouse_pos,     \* main(): None or the pointer position last seen
    running,            \* main(): loop flag
    hand_position,      \* HandTracker.hand_position, in 1/PosDen
    ret,                \* result flag of cap.read() in the current frame
    detected,           \* results.multi_hand_landmarks is non-empty in the current frame
    pointer,            \* what pygame.mouse.get_pos() returns during the current frame
    drawn,              \* arguments of glTranslatef/glRotatef of the last 3D pass, or None
    res,                \* resources: tracker, video source, window and process status
    printed,            \* messages written to the console
    gl,                 \* the OpenGL state the program works on: matrix mode, stacks, capabilities
    frame_with_landmarks, \* main(): the image handed to draw_camera_overlay, or None
    hist,               \* bookkeeping about the run: events handled, values at frame start, toggles
    loader              \* an OBJLoader instance: its fields and how far its construction got

vars == <<variant, pc, rotation_x, rotation_y, zoom, use_hand_tracking, mouse_down,
          last_mouse_pos, running, hand_position, ret, detected, pointer, drawn,
          res, printed, gl, frame_with_landmarks, hist, loader>>

\* the variables of the viewer program
viewer == <<pc, rotation_x, rotation_y, zoom, use_hand_tracking, mouse_down,
            last_mouse_pos, running, hand_position, ret, detected, pointer, drawn,
            res, printed, gl, frame_with_landmarks, hist>>

xform == <<rotation_x, rotation_y, zoom>>

None == "None"

(***************************************************************************)
(* Bounds of the model and units.                                          *)
(***************************************************************************)
\* at most this many input events are handled over a run
MaxInputs == 3

\* a rotation or zoom value r stands for r / OutDen: the program steps them by 0.5
OutDen == 2
\* a hand coordinate c stands for c / PosDen
PosDen == 360 * OutDen

\* hand positions the tracker can report: (0.5,0.5,0), (1,0.5,0), (0,0.5,0), (0.5,0.75,0.05)
HandPositions == { <<PosDen \div 2, PosDen \div 2, 0>>,
                   <<PosDen, PosDen \div 2, 0>>,
                   <<0, PosDen \div 2, 0>>,
                   <<PosDen \div 2, (3 * PosDen) \div 4, PosDen \div 20>> }

\* pointer positions pygame.mouse.get_pos() can return
Pointers == { <<0, 0>>, <<1, 2>> }

\* the events pygame.event.get() can deliver
PointerEvents == { "BUTTON1_DOWN", "BUTTON4_DOWN", "BUTTON5_DOWN", "BUTTON1_UP", "MOUSEMOTION" }
EventKinds == { "QUIT", "K_ESCAPE", "K_r", "K_t", "OTHER" } \cup PointerEvents

\* outcomes of OBJLoader('hand_model.obj') at startup
LoadOutcomes == { "ok", "FileNotFoundError", "OtherError" }

(***************************************************************************)
(* HandTracker (src/main.py; src/module/main.py uses the same interface:    *)
(* process_frame, hand_position, cleanup)                                  *)
(***************************************************************************)
\* HandTracker.__init__: hand_position = [0.5, 0.5, 0]
DefaultHandPosition == <<PosDen \div 2, PosDen \div 2, 0>>

\* HandTracker.get_rotation_angles / math_module.get_rotation_angles:
\*   rotation_y = (hand_position[0] - 0.5) * 360
\*   rotation_x = (hand_position[1] - 0.5) * 360
\*   zoom       = hand_position[2] * -10
\* returned in the order (rotation_x, rotation_y, zoom)
get_rotation_angles_swapped(hp) ==
    LET rotation_y_ == ((hp[2] - PosDen \div 2) * 360 * OutDen) \div PosDen
        rotation_x_ == ((hp[1] - PosDen \div 2) * 360 * OutDen) \div PosDen
        zoom_       == (hp[3] * (-10) * OutDen) \div PosDen
    IN  <<rotation_x_, rotation_y_, zoom_>>

get_rotation_angles(hp) ==
    LET rotation_y_ == ((hp[1] - PosDen \div 2) * 360 * OutDen) \div PosDen
        rotation_x_ == ((hp[2] - PosDen \div 2) * 360 * OutDen) \div PosDen
        zoom_       == (hp[3] * (-10) * OutDen) \div PosDen
    IN  <<rotation_x_, rotation_y_, zoom_>>

\* HandTracker.process_frame: the position is replaced only when a hand is found
process_frame(hp, found, palm) == IF found THEN palm ELSE hp

(***************************************************************************)
(* Event handlers of main(), as functions of the values they read.         *)
(***************************************************************************)
\* K_r: rotation_x, rotation_y = 0, 0; zoom = 0
on_reset_keeps_zoom == <<0, 0, zoom>>

on_reset == <<0, 0, 0>>

\* K_t: use_hand_tracking = not use_hand_tracking
on_toggle_off(mode) == FALSE

on_toggle(mode) == ~mode

\* MOUSEBUTTONDOWN 4 / 5: zoom += 0.5 / zoom -= 0.5
on_wheel(z, button) ==
    IF button = 4 THEN z + OutDen \div 2
    ELSE IF button = 5 THEN z - OutDen \div 2
    ELSE z

\* MOUSEMOTION: whether the drag branch is taken
drag_active(down, last, tracking) == down /\ last # None /\ ~tracking

\* MOUSEMOTION: rotation_y += dx * 0.5; rotation_x += dy * 0.5
\* result in the order (rotation_x, rotation_y)
on_drag(rx, ry, pos, last) ==
    LET dx == pos[1] - last[1]
        dy == pos[2] - last[2]
    IN  <<rx + (dy * OutDen) \div 2, ry + (dx * OutDen) \div 2>>

\* the tracking update of the frame body: the transform after cap.read()
tracking_update(r, tracking, hp, t) ==
    IF r /\ tracking THEN get_rotation_angles(hp) ELSE t

(***************************************************************************)
(* The OpenGL state machine, as far as the program uses it.  A matrix is   *)
(* held as the list of the transformations multiplied onto the identity.   *)
(***************************************************************************)
\* display = (1200, 800)
display == <<1200, 800>>

Identity == <<>>
Top(stack) == stack[Len(stack)]
SetTop(stack, m) == [stack EXCEPT ![Len(stack)] = m]

\* the stack glMatrixMode selected
current_stack(g) == IF g.mode = "GL_PROJECTION" THEN g.pj ELSE g.mv
with_stack(g, st) == IF g.mode = "GL_PROJECTION" THEN [g EXCEPT !.pj = st] ELSE [g EXCEPT !.mv = st]

glMatrixMode(g, m) == [g EXCEPT !.mode = m]
glPushMatrix(g) ==
    with_stack([g EXCEPT !.pushes[g.mode] = @ + 1],
               Append(current_stack(g), Top(current_stack(g))))
glPopMatrix(g) ==
    IF Len(current_stack(g)) > 1
    THEN with_stack([g EXCEPT !.pops[g.mode] = @ + 1],
                    SubSeq(current_stack(g), 1, Len(current_stack(g)) - 1))
    ELSE [g EXCEPT !.error = "GL_STACK_UNDERFLOW"]
glLoadIdentity(g) == with_stack(g, SetTop(current_stack(g), Identity))
glMultiply(g, op) == with_stack(g, SetTop(current_stack(g), Append(Top(current_stack(g)), op)))
glEnable(g, cap) == [g EXCEPT !.caps = @ \cup { cap }]
glDisable(g, cap) == [g EXCEPT !.caps = @ \ { cap }]

\* gluPerspective(45, display[0] / display[1], 0.1, 50.0); glTranslatef(0.0, 0.0, -5)
perspective_setup(g) ==
    glMultiply(glMultiply(g, <<"gluPerspective", 45, display[1], display[2]>>),
               <<"glTranslatef", 0, 0, -5>>)

\* a fresh context: modelview selected, identity matrices, nothing enabled
FreshContext == [ mode |-> "GL_MODELVIEW", mv |-> <<Identity>>, pj |-> <<Identity>>,
                  caps |-> {}, error |-> None,
                  pushes |-> [GL_PROJECTION |-> 0, GL_MODELVIEW |-> 0],
                  pops |-> [GL_PROJECTION |-> 0, GL_MODELVIEW |-> 0] ]

\* setup_opengl(); setup_lighting(): the capabilities they enable
setup_opengl(g) == glEnable(glEnable(g, "GL_DEPTH_TEST"), "GL_NORMALIZE")
setup_lighting(g) ==
    glEnable(glEnable(glEnable(g, "GL_LIGHTING"), "GL_LIGHT0"), "GL_COLOR_MATERIAL")

\* main() from set_mode to setup_lighting
StartupGL == setup_lighting(setup_opengl(perspective_setup(FreshContext)))

\* the graphics calls of the K_r handler: main.py rebuilds the current matrix,
\* module/main.py issues none
reset_view_calls(var) ==
    IF var = "main" THEN <<"glLoadIdentity", "gluPerspective", "glTranslatef">> ELSE <<>>
\* a reset that only loads the identity
reset_view_gl_identity(g, var) ==
    IF var = "main" THEN glLoadIdentity(g) ELSE g

reset_view_gl(g, var) ==
    IF var = "main" THEN perspective_setup(glLoadIdentity(g)) ELSE g

\* the 3D pass: glPushMatrix; glTranslatef(0, 0, zoom); glRotatef(rotation_x, 1, 0, 0);
\* glRotatef(rotation_y, 0, 1, 0); hand_model.render(); glPopMatrix
draw_model(g, t) ==
    LET g1 == glPushMatrix(g)
        g2 == glMultiply(g1, <<"glTranslatef", 0, 0, t[3]>>)
        g3 == glMultiply(g2, <<"glRotatef", t[1], 1, 0, 0>>)
        g4 == glMultiply(g3, <<"glRotatef", t[2], 0, 1, 0>>)
    IN  glPopMatrix(g4)

\* the 2D scope both overlays open: projection pushed and replaced by glOrtho,
\* modelview pushed and replaced by the identity, depth test and lighting off
enter_2d(g) ==
    LET g1 == glPushMatrix(glMatrixMode(g, "GL_PROJECTION"))
        g2 == glMultiply(glLoadIdentity(g1), <<"glOrtho", 0, display[1], 0, display[2], -1, 1>>)
        g3 == glLoadIdentity(glPushMatrix(glMatrixMode(g2, "GL_MODELVIEW")))
    IN  glDisable(glDisable(g3, "GL_DEPTH_TEST"), "GL_LIGHTING")

\* a close that forgets to pop the modelview stack
leave_2d_unpopped(g) ==
    LET g1 == glEnable(glEnable(g, "GL_DEPTH_TEST"), "GL_LIGHTING")
        g2 == glPopMatrix(glMatrixMode(g1, "GL_PROJECTION"))
    IN  glMatrixMode(g2, "GL_MODELVIEW")

\* and close: depth test and lighting on, projection popped, modelview popped
leave_2d(g) ==
    LET g1 == glEnable(glEnable(g, "GL_DEPTH_TEST"), "GL_LIGHTING")
        g2 == glPopMatrix(glMatrixMode(g1, "GL_PROJECTION"))
    IN  glPopMatrix(glMatrixMode(g2, "GL_MODELVIEW"))

\* draw_camera_overlay: the quad and the pixels are drawn with blending on
draw_camera_overlay(g) == leave_2d(glDisable(glEnable(enter_2d(g), "GL_BLEND"), "GL_BLEND"))

\* draw_text_overlay: render_module.py draws the text with blending on, main.py without
draw_text_overlay(g, var) ==
    IF var = "module"
    THEN leave_2d(glDisable(glEnable(enter_2d(g), "GL_BLEND"), "GL_BLEND"))
    ELSE leave_2d(enter_2d(g))

\* the pushes and pops are counted from the end of a 3D pass
restart_counts(g) == [g EXCEPT !.pushes = [GL_PROJECTION |-> 0, GL_MODELVIEW |-> 0],
                               !.pops = [GL_PROJECTION |-> 0, GL_MODELVIEW |-> 0]]

\* what a 3D pass can observe of the graphics state
GLState(g) == [ mode |-> g.mode, mv |-> g.mv, pj |-> g.pj, caps |-> g.caps, error |-> g.error ]

\* a capture step that keeps showing a camera image when the read failed
overlay_image_stale(r) == [kind |-> "camera", width |-> 640, height |-> 480]

\* the image of the frame: the annotated camera image when the read succeeded,
\* np.zeros((480, 640, 3)) otherwise
overlay_image(r) ==
    IF r THEN [kind |-> "camera", width |-> 640, height |-> 480]
    ELSE [kind |-> "black", width |-> 640, height |-> 480]

(***************************************************************************)
(* Initial state: main() up to and including setup_lighting().             *)
(***************************************************************************)
\* the exit status of the process: none while it runs
NotExited == <<>>
Exited(status) == <<status>>

InitRes == [ tracker_created |-> FALSE, tracker_released |-> 0,
             cap_created |-> FALSE, cap_opened |-> FALSE, cap_released |-> 0,
             pygame_quit |-> 0, exit_status |-> NotExited, uncaught |-> FALSE,
             failure |-> None, frames_begun |-> FALSE ]

InitHist == [ inputs |-> 0, last_event |-> None, only_pointer |-> TRUE,
              frame_start |-> <<0, 0, 0>>, before |-> <<0, 0, 0>>,
              toggles |-> 0, snap |-> <<TRUE, 0, 0, 0>>, same_frame |-> FALSE,
              pending |-> <<TRUE, 0, 0, 0>>, pending_in_frame |-> FALSE,
              flipped |-> FALSE,
              ref |-> <<0, 0>>, expected |-> <<0, 0>>,
              reads |-> 0, passes |-> <<>>, prev_failed |-> FALSE,
              gl_calls |-> <<>>, io_calls |-> <<>>, before_rest |-> <<>>,
              gl_first |-> <<>>, run_at_read |-> TRUE,
              resets |-> 0, before_gl |-> <<>> ]

\* a buffer attribute: None, or the name glGenBuffers returned
NoBuffer == <<>>
Buffer(id) == <<id>>

\* OBJLoader.__init__ before load_obj
NewLoader == [ stage |-> "open", error |-> None,
               vertices |-> <<>>, normals |-> <<>>, texcoords |-> <<>>, faces |-> <<>>,
               vertex_data |-> <<>>, normal_data |-> <<>>,
               vbo_vertices |-> NoBuffer, vbo_normals |-> NoBuffer, vertex_count |-> 0,
               draws |-> <<>>, vn_records |-> 0,
               del_calls |-> 0, deleted |-> <<>> ]

Init ==
    /\ variant \in { "main", "module" }
    /\ pc = "load_model"
    /\ rotation_x = 0 /\ rotation_y = 0 /\ zoom = 0
    /\ use_hand_tracking = TRUE
    /\ mouse_down = FALSE
    /\ last_mouse_pos = None
    /\ running = TRUE
    /\ hand_position = DefaultHandPosition
    /\ ret = FALSE /\ detected = FALSE
    /\ pointer = <<0, 0>>
    /\ drawn = None
    /\ res = InitRes
    /\ printed = {}
    /\ gl = StartupGL
    /\ frame_with_landmarks = None
    /\ hist = InitHist
    /\ loader = NewLoader

(***************************************************************************)
(* Startup                                                                 *)
(***************************************************************************)
\* hand_model = OBJLoader('hand_model.obj')
\*   main.py: FileNotFoundError is caught: message, pygame.quit(), return
\*   module/main.py: no handler, every exception leaves main() uncaught
LoadModel(outcome) ==
    /\ pc = "load_model"
    /\ IF outcome = "ok"
       THEN /\ pc' = "init_tracker"
            /\ UNCHANGED <<res, printed>>
       ELSE IF outcome = "FileNotFoundError" /\ variant = "main"
       THEN /\ printed' = printed \cup { "Error: Could not find hand_model.obj",
                                         "Please make sure 'hand_model.obj' is in the same directory as this script" }
            /\ res' = [res EXCEPT !.pygame_quit = @ + 1, !.exit_status = Exited(0),
                                  !.failure = "mesh"]
            /\ pc' = "exited"
       ELSE /\ printed' = printed \cup { "Traceback: " \o outcome }
            /\ res' = [res EXCEPT !.exit_status = Exited(1), !.uncaught = TRUE,
                                  !.failure = IF outcome = "FileNotFoundError"
                                              THEN "mesh" ELSE "malformed"]
            /\ pc' = "exited"
    /\ UNCHANGED <<loader, variant, gl, frame_with_landmarks, rotation_x, rotation_y, zoom, use_hand_tracking, mouse_down,
                   last_mouse_pos, running, hand_position, ret, detected, pointer, drawn, hist>>

\* hand_tracker = HandTracker()
InitTracker ==
    /\ pc = "init_tracker"
    /\ res' = [res EXCEPT !.tracker_created = TRUE]
    /\ hand_position' = DefaultHandPosition
    /\ pc' = "open_cam"
    /\ UNCHANGED <<loader, variant, gl, frame_with_landmarks, rotation_x, rotation_y, zoom, use_hand_tracking, mouse_down,
                   last_mouse_pos, running, ret, detected, pointer, drawn, printed, hist>>

\* cap = cv2.VideoCapture(0); main.py checks cap.isOpened(), module/main.py does not;
\* then the locals of the loop are initialised
OpenCam(opened) ==
    /\ pc = "open_cam"
    /\ IF variant = "main" /\ ~opened
       THEN /\ printed' = printed \cup { "Error: Could not open webcam" }
            /\ res' = [res EXCEPT !.cap_created = TRUE, !.cap_opened = FALSE,
                                  !.pygame_quit = @ + 1, !.exit_status = Exited(0),
                                  !.failure = "video"]
            /\ pc' = "exited"
            /\ UNCHANGED <<rotation_x, rotation_y, zoom, use_hand_tracking, mouse_down,
                           last_mouse_pos, running>>
       ELSE /\ res' = [res EXCEPT !.cap_created = TRUE, !.cap_opened = opened,
                                  !.failure = IF opened THEN None ELSE "video"]
            /\ rotation_x' = 0 /\ rotation_y' = 0 /\ zoom' = 0
            /\ use_hand_tracking' = TRUE
            /\ mouse_down' = FALSE
            /\ last_mouse_pos' = None
            /\ running' = TRUE
            /\ pc' = "loop_test"
            /\ UNCHANGED printed
    /\ UNCHANGED <<loader, variant, gl, frame_with_landmarks, hand_position, ret, detected, pointer, drawn, hist>>

(***************************************************************************)
(* Frame loop                                                              *)
(***************************************************************************)
\* while running: ... pygame.event.get()
BeginFrame(p) ==
    /\ pc = "loop_test"
    /\ running
    /\ pointer' = p
    /\ res' = [res EXCEPT !.frames_begun = TRUE]
    /\ hist' = [hist EXCEPT !.last_event = None, !.only_pointer = TRUE,
                            !.frame_start = xform, !.pending_in_frame = FALSE,
                            !.flipped = FALSE,
                            !.ref = IF use_hand_tracking \/ ~mouse_down THEN p ELSE @,
                            !.reads = 0, !.passes = <<>>, !.resets = 0,
                            !.prev_failed = res.frames_begun /\ ~ret]
    /\ pc' = "events"
    /\ UNCHANGED <<loader, variant, gl, frame_with_landmarks, rotation_x, rotation_y, zoom, use_hand_tracking, mouse_down,
                   last_mouse_pos, running, hand_position, ret, detected, drawn, printed>>

\* bookkeeping of an event: which event, the transform before it, and for a toggle
\* that directly follows a toggle, the mode and transform before the earlier one;
\* ref is the pointer position from which a drag in MANUAL mode is measured (it
\* follows the pointer while the button is up or the mode is TRACKING), expected
\* the displacement of the pointer from it at a motion event of such a drag
Note(e) ==
    LET second == e = "K_t" /\ hist.toggles >= 1
        dragging == e = "MOUSEMOTION" /\ mouse_down /\ ~use_hand_tracking
    IN  [hist EXCEPT !.inputs = @ + 1,
                     !.expected = IF dragging
                                  THEN <<pointer[1] - hist.ref[1], pointer[2] - hist.ref[2]>>
                                  ELSE <<0, 0>>,
                     !.ref = IF e = "BUTTON1_DOWN" \/ dragging THEN pointer ELSE @,
                     !.gl_calls = IF e = "K_r" THEN reset_view_calls(variant) ELSE <<>>,
                     !.io_calls = IF e = "K_t" /\ variant = "main" THEN <<"print">> ELSE <<>>,
                     !.before_rest = <<use_hand_tracking, mouse_down, last_mouse_pos, running>>,
                     !.before_gl = GLState(gl),
                     !.resets = IF e = "K_r" THEN (IF @ >= 1 THEN 2 ELSE 1) ELSE 0,
                     !.last_event = e,
                     !.only_pointer = @ /\ e \in PointerEvents,
                     !.before = xform,
                     !.toggles = IF e = "K_t" THEN (IF second THEN 2 ELSE 1) ELSE 0,
                     !.snap = IF second THEN hist.pending ELSE @,
                     !.same_frame = IF second THEN hist.pending_in_frame ELSE @,
                     !.pending = IF e = "K_t"
                                 THEN <<use_hand_tracking, rotation_x, rotation_y, zoom>>
                                 ELSE @,
                     !.pending_in_frame = e = "K_t"]

\* one iteration of: for event in pygame.event.get()
HandleEvent(e) ==
    /\ pc = "events"
    /\ hist.inputs < MaxInputs
    /\ hist' = Note(e)
    /\ CASE e \in { "QUIT", "K_ESCAPE" } ->
              /\ running' = FALSE
              /\ UNCHANGED <<rotation_x, rotation_y, zoom, use_hand_tracking, mouse_down,
                             last_mouse_pos, printed>>
         [] e = "K_r" ->
              /\ rotation_x' = on_reset[1] /\ rotation_y' = on_reset[2] /\ zoom' = on_reset[3]
              /\ UNCHANGED <<running, use_hand_tracking, mouse_down, last_mouse_pos, printed>>
         [] e = "K_t" ->
              /\ use_hand_tracking' = on_toggle(use_hand_tracking)
              /\ printed' = IF variant = "main"
                            THEN printed \cup { IF use_hand_tracking' THEN "Hand tracking: ON"
                                                                      ELSE "Hand tracking: OFF" }
                            ELSE printed
              /\ UNCHANGED <<running, rotation_x, rotation_y, zoom, mouse_down, last_mouse_pos>>
         [] e = "BUTTON1_DOWN" /\ variant = "main" ->
              /\ mouse_down' = TRUE
              /\ last_mouse_pos' = pointer
              /\ UNCHANGED <<running, rotation_x, rotation_y, zoom, use_hand_tracking, printed>>
         [] e = "BUTTON4_DOWN" /\ variant = "main" ->
              /\ zoom' = on_wheel(zoom, 4)
              /\ UNCHANGED <<running, rotation_x, rotation_y, use_hand_tracking, mouse_down,
                             last_mouse_pos, printed>>
         [] e = "BUTTON5_DOWN" /\ variant = "main" ->
              /\ zoom' = on_wheel(zoom, 5)
              /\ UNCHANGED <<running, rotation_x, rotation_y, use_hand_tracking, mouse_down,
                             last_mouse_pos, printed>>
         [] e = "BUTTON1_UP" /\ variant = "main" ->
              /\ mouse_down' = FALSE
              /\ UNCHANGED <<running, rotation_x, rotation_y, zoom, use_hand_tracking,
                             last_mouse_pos, printed>>
         [] e = "MOUSEMOTION" /\ variant = "main"
                /\ drag_active(mouse_down, last_mouse_pos, use_hand_tracking) ->
              /\ rotation_x' = on_drag(rotation_x, rotation_y, pointer, last_mouse_pos)[1]
              /\ rotation_y' = on_drag(rotation_x, rotation_y, pointer, last_mouse_pos)[2]
              /\ last_mouse_pos' = pointer
              /\ UNCHANGED <<running, zoom, use_hand_tracking, mouse_down, printed>>
         [] OTHER ->
              UNCHANGED <<running, rotation_x, rotation_y, zoom, use_hand_tracking, mouse_down,
                          last_mouse_pos, printed>>
    /\ gl' = IF e = "K_r" THEN reset_view_gl(gl, variant) ELSE gl
    /\ UNCHANGED <<loader, variant, frame_with_landmarks, pc, hand_position, ret, detected,
                   pointer, drawn, res>>

\* the event list is exhausted
EndEvents ==
    /\ pc = "events"
    /\ pc' = "capture"
    /\ hist' = [hist EXCEPT !.run_at_read = running]
    /\ UNCHANGED <<loader, variant, gl, frame_with_landmarks, rotation_x, rotation_y, zoom,
                   use_hand_tracking, mouse_down, last_mouse_pos, running, hand_position,
                   ret, detected, pointer, drawn, res, printed>>

\* ret, frame = cap.read(); if ret: process_frame, then the tracking update
CaptureFrame(r, found, palm) ==
    /\ pc = "capture"
    /\ r => res.cap_opened
    /\ found => r
    /\ ret' = r
    /\ detected' = found
    /\ hist' = [hist EXCEPT !.before = xform, !.reads = @ + 1]
    /\ frame_with_landmarks' = overlay_image(r)
    /\ hand_position' = IF r THEN process_frame(hand_position, found, palm) ELSE hand_position
    /\ LET t == tracking_update(r, use_hand_tracking, hand_position', xform)
       IN  /\ rotation_x' = t[1]
           /\ rotation_y' = t[2]
           /\ zoom' = t[3]
    /\ pc' = "draw3d"
    /\ UNCHANGED <<loader, variant, gl, use_hand_tracking, mouse_down, last_mouse_pos, running, pointer,
                   drawn, res, printed>>

\* glClear; glPushMatrix; glTranslatef(0,0,zoom); glRotatef(rotation_x,1,0,0);
\* glRotatef(rotation_y,0,1,0); hand_model.render(); glPopMatrix
Draw3D ==
    /\ pc = "draw3d"
    /\ drawn' = xform
    /\ gl' = restart_counts(draw_model(gl, xform))
    /\ hist' = [hist EXCEPT !.passes = @ \o <<"clear", "3d">>,
                            !.gl_first = IF @ = <<>> THEN <<GLState(gl)>> ELSE @]
    /\ pc' = "overlay"
    /\ UNCHANGED <<loader, variant, frame_with_landmarks, rotation_x, rotation_y, zoom,
                   use_hand_tracking, mouse_down, last_mouse_pos, running, hand_position,
                   ret, detected, pointer, res, printed>>

\* draw_camera_overlay(...); draw_text_overlay(...)
DrawOverlays ==
    /\ pc = "overlay"
    /\ gl' = draw_text_overlay(draw_camera_overlay(gl), variant)
    /\ hist' = [hist EXCEPT !.passes = Append(@, "2d")]
    /\ pc' = "flip"
    /\ UNCHANGED <<loader, variant, frame_with_landmarks, rotation_x, rotation_y, zoom,
                   use_hand_tracking, mouse_down, last_mouse_pos, running, hand_position,
                   ret, detected, pointer, drawn, res, printed>>

\* pygame.display.flip(); clock.tick(60)
Flip ==
    /\ pc = "flip"
    /\ pc' = "loop_test"
    /\ hist' = [hist EXCEPT !.flipped = TRUE, !.passes = Append(@, "present")]
    /\ UNCHANGED <<loader, variant, gl, frame_with_landmarks, rotation_x, rotation_y, zoom, use_hand_tracking, mouse_down,
                   last_mouse_pos, running, hand_position, ret, detected, pointer, drawn,
                   res, printed>>

\* the loop condition is false: hand_tracker.cleanup(); cap.release(); pygame.quit()
Cleanup ==
    /\ pc = "loop_test"
    /\ ~running
    /\ res' = [res EXCEPT !.tracker_released = @ + 1, !.cap_released = @ + 1,
                          !.pygame_quit = @ + 1, !.exit_status = Exited(0)]
    /\ pc' = "exited"
    /\ UNCHANGED <<loader, variant, gl, frame_with_landmarks, rotation_x, rotation_y, zoom, use_hand_tracking, mouse_down,
                   last_mouse_pos, running, hand_position, ret, detected, pointer, drawn,
                   printed, hist>>

Next ==
    \/ \E o \in LoadOutcomes : LoadModel(o)
    \/ InitTracker
    \/ \E opened \in BOOLEAN : OpenCam(opened)
    \/ \E p \in Pointers : BeginFrame(p)
    \/ \E e \in EventKinds : HandleEvent(e)
    \/ EndEvents
    \/ \E r \in BOOLEAN, found \in BOOLEAN, palm \in HandPositions : CaptureFrame(r, found, palm)
    \/ Draw3D
    \/ DrawOverlays
    \/ Flip
    \/ Cleanup

Spec == Init /\ [][Next]_vars

(***************************************************************************)
(* OBJLoader                                                               *)
(*                                                                         *)
(* A line of the file is held as the keyword and the tokens that follow    *)
(* it (line.split()).  A token is a number, or text that float()/int()     *)
(* reject; an index group of a face is the list of its '/'-separated       *)
(* fields, each a number, empty, or rejected text.                         *)
(***************************************************************************)
\* bounds of the mesh files read
MaxVertices == 3
MaxNormals == 1
MaxTexcoords == 1
MaxFaces == 1
\* how often the destructor of one loader is called
MaxDestroy == 2

Num(n) == [t |-> "num", v |-> n]
EmptyField == [t |-> "empty", v |-> 0]
BadToken == [t |-> "bad", v |-> 0]

Line(key, args) == [key |-> key, args |-> args]
\* "v/t/n" groups as written in the file
G1(v) == <<Num(v)>>
G3(v, n) == <<Num(v), EmptyField, Num(n)>>

VertexLines == { Line("v", <<Num(0), Num(0), Num(0)>>),
                 Line("v", <<Num(1), Num(0), Num(0)>>),
                 Line("v", <<Num(0), Num(1), Num(0), Num(1)>>),
                 Line("v", <<Num(1), Num(0)>>),
                 Line("v", <<Num(1), BadToken, Num(0)>>) }
NormalLines == { Line("vn", <<Num(0), Num(1), Num(0)>>),
                 Line("vn", <<Num(1)>>) }
TexcoordLines == { Line("vt", <<Num(0), Num(1), Num(0)>>) }
FaceLines == { Line("f", <<G1(1), G1(2), G1(3)>>),
               Line("f", <<G3(1, 1), G3(2, 1), G3(3, 1)>>),
               Line("f", <<G1(1), G1(2), G1(3), G1(1)>>),
               Line("f", <<<<EmptyField, EmptyField, Num(1)>>, G1(1), G1(2)>>),
               Line("f", <<G1(1), G1(2), G1(9)>>),
               Line("f", <<G1(-1), G1(1), G1(2)>>),
               Line("f", <<G3(1, 9), G1(2), G1(3)>>) }
OtherLines == { Line("#", <<>>), Line("", <<>>), Line("usemtl", <<Num(0)>>) }
Lines == VertexLines \cup NormalLines \cup TexcoordLines \cup FaceLines \cup OtherLines

\* the result of an operation that can raise
Ok(v) == [err |-> None, val |-> v]
Raise(e) == [err |-> e, val |-> <<>>]

\* lst[a:b] of Python on a 1-based sequence (0 <= a <= b)
Slice(lst, a, b) ==
    LET hi == IF b < Len(lst) THEN b ELSE Len(lst)
    IN  IF a >= hi THEN <<>> ELSE SubSeq(lst, a + 1, hi)

\* [float(x) for x in toks]
RECURSIVE floats(_)
floats(toks) ==
    IF toks = <<>> THEN Ok(<<>>)
    ELSE IF Head(toks).t # "num" THEN Raise("ValueError")
    ELSE LET rest == floats(Tail(toks))
         IN  IF rest.err # None THEN rest ELSE Ok(<<Head(toks).v>> \o rest.val)

\* int(w[i]) if len(w) > i and w[i] else 0     (i counted from 0)
int_field(w, i) ==
    IF Len(w) > i /\ w[i + 1].t # "empty"
    THEN (IF w[i + 1].t = "num" THEN Ok(w[i + 1].v) ELSE Raise("ValueError"))
    ELSE Ok(0)

\* one entry of a face: main.py keeps [v, t, n], model_module.py keeps [v, n]
face_entry(w, var) ==
    LET v == int_field(w, 0)
        t == int_field(w, 1)
        n == int_field(w, 2)
    IN  IF v.err # None THEN v
        ELSE IF var = "main" /\ t.err # None THEN t
        ELSE IF n.err # None THEN n
        ELSE IF var = "main" THEN Ok(<<v.val, t.val, n.val>>)
        ELSE Ok(<<v.val, n.val>>)

RECURSIVE parse_face(_, _)
parse_face(groups, var) ==
    IF groups = <<>> THEN Ok(<<>>)
    ELSE LET e == face_entry(Head(groups), var)
         IN  IF e.err # None THEN e
             ELSE LET rest == parse_face(Tail(groups), var)
                  IN  IF rest.err # None THEN rest ELSE Ok(<<e.val>> \o rest.val)

\* the body of the loop of load_obj for one line: the loader after the line
parse_line(ld, line, var) ==
    IF line.key = "v" THEN
        LET r == floats(Slice(line.args, 0, 3))
        IN  IF r.err # None THEN [ld EXCEPT !.stage = "failed", !.error = r.err]
            ELSE [ld EXCEPT !.vertices = Append(@, r.val)]
    ELSE IF line.key = "vn" THEN
        LET r == floats(Slice(line.args, 0, 3))
        IN  IF r.err # None THEN [ld EXCEPT !.stage = "failed", !.error = r.err]
            ELSE [ld EXCEPT !.normals = Append(@, r.val), !.vn_records = @ + 1]
    ELSE IF line.key = "vt" /\ var = "main" THEN
        LET r == floats(Slice(line.args, 0, 2))
        IN  IF r.err # None THEN [ld EXCEPT !.stage = "failed", !.error = r.err]
            ELSE [ld EXCEPT !.texcoords = Append(@, r.val)]
    ELSE IF line.key = "f" THEN
        LET r == parse_face(line.args, var)
        IN  IF r.err # None THEN [ld EXCEPT !.stage = "failed", !.error = r.err]
            ELSE [ld EXCEPT !.faces = Append(@, r.val)]
    ELSE ld

\* lst[i] of Python (i counted from 0, negative i counts from the end)
py_index(lst, i) ==
    IF 0 <= i /\ i < Len(lst) THEN Ok(lst[i + 1])
    ELSE IF i < 0 /\ -i <= Len(lst) THEN Ok(lst[Len(lst) + i + 1])
    ELSE Raise("IndexError")

\* what create_vbo appends to vertex_data for one face entry
emit_position(entry, vertices, var) ==
    IF var = "main"
    THEN (IF entry[1] # 0 THEN py_index(vertices, entry[1] - 1) ELSE Ok(<<0, 0, 0>>))
    ELSE py_index(vertices, entry[1] - 1)

\* what create_vbo appends to normal_data for one face entry
emit_normal(entry, normals, var) ==
    IF var = "main"
    THEN (IF entry[3] # 0 /\ normals # <<>> THEN py_index(normals, entry[3] - 1)
          ELSE Ok(<<0, 0, 1>>))
    ELSE (IF entry[2] # 0 THEN py_index(normals, entry[2] - 1) ELSE Ok(<<0, 0, 1>>))

\* all face entries in the order create_vbo visits them
RECURSIVE entries_of(_)
entries_of(faces) ==
    IF faces = <<>> THEN <<>> ELSE Head(faces) \o entries_of(Tail(faces))

\* the two loops of create_vbo: <<vertex_data, normal_data>>, or the exception
RECURSIVE expand(_, _, _, _)
expand(entries, vertices, normals, var) ==
    IF entries = <<>> THEN Ok(<<<<>>, <<>>>>)
    ELSE LET p == emit_position(Head(entries), vertices, var)
             n == emit_normal(Head(entries), normals, var)
         IN  IF p.err # None THEN p
             ELSE IF n.err # None THEN n
             ELSE LET rest == expand(Tail(entries), vertices, normals, var)
                  IN  IF rest.err # None THEN rest
                      ELSE Ok(<<p.val \o rest.val[1], n.val \o rest.val[2]>>)

\* load_obj: open(filename, 'r')
OpenFile(exists) ==
    /\ loader.stage = "open"
    /\ loader' = IF exists THEN [loader EXCEPT !.stage = "read"]
                 ELSE [loader EXCEPT !.stage = "failed", !.error = "FileNotFoundError"]
    /\ UNCHANGED <<variant, viewer>>

\* load_obj: one iteration of  for line in f
ReadLine(line) ==
    /\ loader.stage = "read"
    /\ line.key = "v" => Len(loader.vertices) < MaxVertices
    /\ line.key = "vn" => Len(loader.normals) < MaxNormals
    /\ line.key = "vt" => Len(loader.texcoords) < MaxTexcoords
    /\ line.key = "f" => Len(loader.faces) < MaxFaces
    /\ loader' = parse_line(loader, line, variant)
    /\ UNCHANGED <<variant, viewer>>

\* load_obj: end of file
EndOfFile ==
    /\ loader.stage = "read"
    /\ loader' = [loader EXCEPT !.stage = "loaded"]
    /\ UNCHANGED <<variant, viewer>>

\* create_vbo
CreateVbo ==
    /\ loader.stage = "loaded"
    /\ LET r == expand(entries_of(loader.faces), loader.vertices, loader.normals, variant)
       IN  loader' = IF r.err # None
                     THEN [loader EXCEPT !.stage = "failed", !.error = r.err]
                     ELSE [loader EXCEPT !.stage = "built",
                                         !.vertex_data = r.val[1],
                                         !.normal_data = r.val[2],
                                         !.vertex_count = Len(r.val[1]) \div 3,
                                         !.vbo_vertices = Buffer(1),
                                         !.vbo_normals = Buffer(2)]
    /\ UNCHANGED <<variant, viewer>>

\* render: glDrawArrays(GL_TRIANGLES, 0, self.vertex_count); main.py returns
\* at once when vbo_vertices is None
Render ==
    /\ loader.stage = "built"
    /\ loader.draws = <<>>
    /\ loader' = IF variant = "main" /\ loader.vbo_vertices = NoBuffer
                 THEN loader
                 ELSE [loader EXCEPT !.draws = Append(@, loader.vertex_count)]
    /\ UNCHANGED <<variant, viewer>>

\* the buffers __del__ hands to glDeleteBuffers: main.py and render.py delete
\* every buffer attribute that is set and leave the attributes as they are;
\* model_module.py defines no __del__
buffers_deleted(l, var) ==
    IF var = "main"
    THEN (IF l.vbo_vertices # NoBuffer THEN l.vbo_vertices ELSE <<>>)
         \o (IF l.vbo_normals # NoBuffer THEN l.vbo_normals ELSE <<>>)
    ELSE <<>>

\* __del__ of a loader whose constructor has returned or raised
Del ==
    /\ loader.stage \in { "built", "failed" }
    /\ loader.del_calls < MaxDestroy
    /\ loader' = [loader EXCEPT !.del_calls = @ + 1,
                                !.deleted = @ \o buffers_deleted(loader, variant)]
    /\ UNCHANGED <<variant, viewer>>

InitMesh ==
    /\ variant \in { "main", "module" }
    /\ loader = NewLoader
    /\ pc = "load_model"
    /\ rotation_x = 0 /\ rotation_y = 0 /\ zoom = 0
    /\ use_hand_tracking = TRUE
    /\ mouse_down = FALSE
    /\ last_mouse_pos = None
    /\ running = TRUE
    /\ hand_position = DefaultHandPosition
    /\ ret = FALSE /\ detected = FALSE
    /\ pointer = <<0, 0>>
    /\ drawn = None
    /\ res = InitRes
    /\ printed = {}
    /\ gl = StartupGL
    /\ frame_with_landmarks = None
    /\ hist = InitHist

NextMesh ==
    \/ \E exists \in BOOLEAN : OpenFile(exists)
    \/ \E line \in Lines : ReadLine(line)
    \/ EndOfFile
    \/ CreateVbo
    \/ Render
    \/ Del

SpecMesh == InitMesh /\ [][NextMesh]_vars

(***************************************************************************)
(* Properties of the viewer (checked under Spec)                           *)
(***************************************************************************)
Zero == <<0, 0, 0>>

\* the frame body is past the tracking update
AfterUpdate == pc \in { "draw3d", "overlay", "flip" }
\* the frame's 3D pass has been drawn
AfterDraw == pc \in { "overlay", "flip" }

\* t is the transform the documented mapping gives for hand position hp:
\* rotationY = (x - 0.5) * 360, rotationX = (y - 0.5) * 360, zoom = z * -10
MapsTo(hp, t) ==
    /\ t[2] * 2 * PosDen = (2 * hp[1] - PosDen) * 360 * OutDen
    /\ t[1] * 2 * PosDen = (2 * hp[2] - PosDen) * 360 * OutDen
    /\ t[3] * PosDen = hp[3] * (-10) * OutDen

\* C1: in TRACKING mode, in every frame whose video read succeeds, the transform
\* (and what the 3D pass is drawn with) is the mapping of the tracker's hand
\* position: rotationY from x, rotationX from y, zoom from z; (0.5,0.5,0) gives
\* {0,0,0}, (1,0.5,0) gives rotationY = 180 and (0,0.5,0) gives rotationY = -180.
C1_TrackingMapping ==
    (AfterUpdate /\ use_hand_tracking /\ ret) =>
        /\ MapsTo(hand_position, xform)
        /\ AfterDraw => drawn = xform
        /\ hand_position = <<PosDen \div 2, PosDen \div 2, 0>> => xform = Zero
        /\ hand_position = <<PosDen, PosDen \div 2, 0>> => rotation_y = 180 * OutDen
        /\ hand_position = <<0, PosDen \div 2, 0>> => rotation_y = (-180) * OutDen

\* C1 witness: a tracked frame with a hand off centre in y and z only
C1_Witness ==
    /\ pc = "overlay" /\ use_hand_tracking /\ ret /\ detected
    /\ hand_position = <<PosDen \div 2, (3 * PosDen) \div 4, PosDen \div 20>>
    /\ drawn = <<90 * OutDen, 0, -1>>

\* C2 as stated: when reset is the last event handled in a frame, the frame's 3D
\* pass is drawn with {0,0,0}, whatever the mode and the hand position.
C2_ResetDrawnZero ==
    (AfterDraw /\ hist.last_event = "K_r") => drawn = Zero

\* C2 amended: the reset handler leaves {0,0,0} in both modes; the frame in which
\* reset was the last event is drawn with {0,0,0} when the mode is MANUAL or the
\* video read fails, and with the mapping of the tracker's hand position when the
\* mode is TRACKING and the read succeeds.
C2_ResetAmended ==
    /\ (pc = "events" /\ hist.last_event = "K_r") => xform = Zero
    /\ (AfterDraw /\ hist.last_event = "K_r") =>
          IF use_hand_tracking /\ ret
          THEN MapsTo(hand_position, drawn)
          ELSE drawn = Zero

\* C2 witness: a frame that began with a non-zero transform, handled reset last
\* and was drawn with {0,0,0}
C2_Witness ==
    /\ pc = "overlay" /\ hist.last_event = "K_r"
    /\ hist.frame_start # Zero
    /\ drawn = Zero

\* the second of two toggles with no other event between them was just handled
SecondToggleHandled ==
    pc = "events" /\ hist.last_event = "K_t" /\ hist.toggles = 2

\* C3 as stated: two toggles with no other event between them, in the same frame
\* or in different frames, restore the mode and leave rotationX, rotationY and
\* zoom as they were before the first toggle.
C3_ToggleInverse ==
    SecondToggleHandled => <<use_hand_tracking, rotation_x, rotation_y, zoom>> = hist.snap

\* C3 amended: two such toggles always restore the mode; the transform is as before
\* the first toggle when both are handled in the same frame or when the mode
\* before the first toggle was TRACKING; when it was MANUAL and the toggles are in
\* different frames, the transform is either as before or the mapping of the
\* tracker's hand position, assigned by a tracking update in between.
C3_ToggleAmended ==
    SecondToggleHandled =>
        /\ use_hand_tracking = hist.snap[1]
        /\ (hist.same_frame \/ hist.snap[1]) => xform = <<hist.snap[2], hist.snap[3], hist.snap[4]>>
        /\ \/ xform = <<hist.snap[2], hist.snap[3], hist.snap[4]>>
           \/ MapsTo(hand_position, xform)

\* C3 witness: two toggles in different frames, starting from TRACKING with a
\* non-zero transform
C3_Witness ==
    /\ SecondToggleHandled /\ ~hist.same_frame
    /\ hist.snap[1] /\ use_hand_tracking
    /\ xform # Zero

\* C4: one input source per frame.  In a frame in TRACKING mode whose events were
\* pointer events only, the pass is drawn with the tracker's mapping when the
\* read succeeded and with the transform the frame began with when it failed; in
\* a frame in MANUAL mode without events the pass is drawn with the transform the
\* frame began with.
C4_OneSource ==
    AfterDraw =>
        /\ (use_hand_tracking /\ hist.only_pointer /\ ret) => MapsTo(hand_position, drawn)
        /\ (use_hand_tracking /\ hist.only_pointer /\ ~ret) => drawn = hist.frame_start
        /\ (~use_hand_tracking /\ hist.last_event = None) => drawn = hist.frame_start

\* C5: in TRACKING mode, a frame without a tracked position (read failed, or no
\* hand detected) leaves the transform as it was before the update.
C5_HoldWithoutPosition ==
    (pc = "draw3d" /\ use_hand_tracking /\ ~(ret /\ detected)) => xform = hist.before

\* C9: a startup failure (mesh file missing, video device not opened) never runs
\* a frame and ends the process with a non-zero status, after a message, without
\* an uncaught exception; a clean shutdown ends it with status 0.
C9_StartupFailure ==
    /\ res.failure \in { "mesh", "video" } =>
          /\ ~res.frames_begun
          /\ pc # "exited" \/ (res.exit_status # Exited(0) /\ ~res.uncaught /\ printed # {})
    /\ (pc = "exited" /\ res.failure = None) => res.exit_status = Exited(0)

\* C10: shutdown at a frame boundary.  A frame begins only while running holds;
\* nothing is released before the loop has ended, and then only after the frame
\* in progress was presented; when the process has ended every created source
\* was released exactly once.
C10_Shutdown ==
    /\ (pc = "events" /\ hist.last_event = None) => running
    /\ (res.tracker_released > 0 \/ res.cap_released > 0) =>
          pc = "exited" /\ ~running /\ hist.flipped
    /\ pc = "exited" =>
          /\ res.tracker_created => res.tracker_released = 1
          /\ res.cap_created => res.cap_released = 1

(***************************************************************************)
(* Properties of OBJLoader (checked under SpecMesh)                        *)
(***************************************************************************)
\* sum over the faces of the number of index groups of the face
RECURSIVE FaceVertexTotal(_)
FaceVertexTotal(faces) ==
    IF faces = <<>> THEN 0 ELSE Len(Head(faces)) + FaceVertexTotal(Tail(faces))

\* C6: for every mesh that loads and builds, vertex_count is the sum over the
\* faces of the number of index groups, and render() draws that many vertices.
C6_VertexCount ==
    loader.stage = "built" =>
        /\ loader.vertex_count = FaceVertexTotal(loader.faces)
        /\ loader.draws # <<>> => loader.draws = <<FaceVertexTotal(loader.faces)>>

\* the vertex and normal index of a face entry in either variant
VertexIndex(entry) == entry[1]
NormalIndex(entry) == entry[Len(entry)]

\* the position and the normal the specification asks for when an index does
\* not resolve: the zero vector and the default normal
RecoveredPosition(entry) ==
    IF VertexIndex(entry) >= 1 /\ VertexIndex(entry) <= Len(loader.vertices)
    THEN loader.vertices[VertexIndex(entry)] ELSE <<0, 0, 0>>
RecoveredNormal(entry) ==
    IF NormalIndex(entry) >= 1 /\ NormalIndex(entry) <= Len(loader.normals)
    THEN loader.normals[NormalIndex(entry)] ELSE <<0, 0, 1>>

RECURSIVE RecoveredPositions(_)
RecoveredPositions(entries) ==
    IF entries = <<>> THEN <<>>
    ELSE RecoveredPosition(Head(entries)) \o RecoveredPositions(Tail(entries))
RECURSIVE RecoveredNormals(_)
RecoveredNormals(entries) ==
    IF entries = <<>> THEN <<>>
    ELSE RecoveredNormal(Head(entries)) \o RecoveredNormals(Tail(entries))

\* C7: a face index that does not resolve never aborts the build: no IndexError
\* ends it, an unresolved vertex index emits the zero vector, an unresolved
\* normal index the default normal, every other face-vertex is emitted unchanged.
C7_IndexRecovery ==
    /\ loader.stage = "failed" => loader.error # "IndexError"
    /\ loader.stage = "built" =>
          /\ loader.vertex_data = RecoveredPositions(entries_of(loader.faces))
          /\ loader.normal_data = RecoveredNormals(entries_of(loader.faces))

Sub3(a, b) == <<a[1] - b[1], a[2] - b[2], a[3] - b[3]>>
Add3(a, b) == <<a[1] + b[1], a[2] + b[2], a[3] + b[3]>>
Dot3(a, b) == a[1] * b[1] + a[2] * b[2] + a[3] * b[3]
Cross3(a, b) == <<a[2] * b[3] - a[3] * b[2], a[3] * b[1] - a[1] * b[3], a[1] * b[2] - a[2] * b[1]>>

\* the mesh is one on which face normals are defined: full vertex records,
\* faces of at least three entries, vertex indices that resolve
Regular ==
    /\ \A i \in 1..Len(loader.vertices) : Len(loader.vertices[i]) = 3
    /\ \A i \in 1..Len(loader.faces) :
          /\ Len(loader.faces[i]) >= 3
          /\ \A k \in 1..Len(loader.faces[i]) :
                /\ VertexIndex(loader.faces[i][k]) >= 1
                /\ VertexIndex(loader.faces[i][k]) <= Len(loader.vertices)

\* (v2 - v1) x (v3 - v1) of the first three vertices of a face
FaceCross(face) ==
    LET v1 == loader.vertices[VertexIndex(face[1])]
        v2 == loader.vertices[VertexIndex(face[2])]
        v3 == loader.vertices[VertexIndex(face[3])]
    IN  Cross3(Sub3(v2, v1), Sub3(v3, v1))

References(face, v) == \E k \in 1..Len(face) : VertexIndex(face[k]) = v

\* the sum of the face vectors of the faces that reference vertex v
RECURSIVE CrossSum(_, _)
CrossSum(faces, v) ==
    IF faces = <<>> THEN <<0, 0, 0>>
    ELSE Add3(IF References(Head(faces), v) THEN FaceCross(Head(faces)) ELSE <<0, 0, 0>>,
              CrossSum(Tail(faces), v))

\* the non-degenerate faces that reference v have face vectors of one length,
\* so that the sum of their unit normals is parallel to the sum of the vectors
EqualLengths(v) ==
    \A i, j \in 1..Len(loader.faces) :
        LET ci == FaceCross(loader.faces[i])
            cj == FaceCross(loader.faces[j])
        IN  (References(loader.faces[i], v) /\ References(loader.faces[j], v)
             /\ ci # <<0, 0, 0>> /\ cj # <<0, 0, 0>>) => Dot3(ci, ci) = Dot3(cj, cj)

\* n is the derived normal of vertex v: the unit vector along the sum of the unit
\* face normals (the zero vector when that sum is zero)
IsDerivedNormal(n, v) ==
    LET sum == CrossSum(loader.faces, v)
    IN  /\ Len(n) = 3
        /\ EqualLengths(v) =>
              IF sum = <<0, 0, 0>> THEN n = <<0, 0, 0>>
              ELSE Cross3(n, sum) = <<0, 0, 0>> /\ Dot3(n, sum) > 0 /\ Dot3(n, n) = 1

\* the k-th normal of the expanded normal stream
EmittedNormal(k) == SubSeq(loader.normal_data, 3 * k - 2, 3 * k)

\* C8: on a mesh without normal records and with a face, every vertex that a face
\* references has a derived normal, the normalized sum of the unit face normals
\* of the faces referencing it, and a face-vertex without normal index is
\* emitted with the derived normal of its vertex; (0,0,1) is emitted only for a
\* vertex that has none.
C8_DerivedNormals ==
    (loader.stage = "built" /\ Regular /\ loader.faces # <<>>) =>
        LET entries == entries_of(loader.faces)
        IN  \A k \in 1..Len(entries) :
                LET v == VertexIndex(entries[k])
                IN  NormalIndex(entries[k]) = 0 =>
                        /\ loader.vn_records = 0 =>
                              /\ Len(loader.normals) >= v
                              /\ IsDerivedNormal(loader.normals[v], v)
                        /\ IF loader.vn_records = 0 /\ Len(loader.normals) >= v
                           THEN EmittedNormal(k) = loader.normals[v]
                           ELSE EmittedNormal(k) = <<0, 0, 1>>

\* C11: in MANUAL mode a pointer-move event with the left button held adds
\* 0.5 * dx to rotationY and 0.5 * dy to rotationX, (dx, dy) being the pointer's
\* displacement since the position last seen while dragging in MANUAL mode;
\* movement made with the button up or in TRACKING mode adds nothing; a wheel-up
\* event adds 0.5 to zoom and a wheel-down event subtracts 0.5.
C11_ManualDrag ==
    (variant = "main" /\ pc = "events") =>
        /\ hist.last_event = "MOUSEMOTION" =>
              /\ rotation_y * 2 = hist.before[2] * 2 + hist.expected[1] * OutDen
              /\ rotation_x * 2 = hist.before[1] * 2 + hist.expected[2] * OutDen
              /\ zoom = hist.before[3]
        /\ (hist.last_event = "BUTTON4_DOWN" /\ ~use_hand_tracking) =>
              xform = <<hist.before[1], hist.before[2], hist.before[3] + OutDen \div 2>>
        /\ (hist.last_event = "BUTTON5_DOWN" /\ ~use_hand_tracking) =>
              xform = <<hist.before[1], hist.before[2], hist.before[3] - OutDen \div 2>>

\* C12: a failed video read does not end the loop and is not retried in the frame:
\* the frame was read once, its overlay image is a black 640x480 image, the
\* clear, 3D pass, 2D pass and presentation follow in that order, `running` is
\* what the event handlers left, and the frame after it reads once again.
BlackImage == [kind |-> "black", width |-> 640, height |-> 480]

FailedFrame == res.frames_begun /\ ~ret /\ hist.reads = 1

C12_FailedRead ==
    /\ (pc \in { "draw3d", "overlay", "flip" } \/ (pc = "loop_test" /\ hist.flipped)) =>
          hist.reads = 1
    /\ (FailedFrame /\ pc \in { "draw3d", "overlay", "flip" }) =>
          /\ frame_with_landmarks = BlackImage
          /\ running = hist.run_at_read
    /\ (FailedFrame /\ pc = "draw3d") => hist.passes = <<>>
    /\ (FailedFrame /\ pc = "overlay") => hist.passes = <<"clear", "3d">>
    /\ (FailedFrame /\ pc = "flip") => hist.passes = <<"clear", "3d", "2d">>
    /\ (FailedFrame /\ pc = "loop_test" /\ hist.flipped) =>
          /\ hist.passes = <<"clear", "3d", "2d", "present">>
          /\ frame_with_landmarks = BlackImage
          /\ running = hist.run_at_read

\* a frame that follows a failed read has read again, failed again, and was presented
C12_Witness ==
    /\ hist.prev_failed /\ FailedFrame
    /\ pc = "loop_test" /\ hist.flipped /\ running
    /\ frame_with_landmarks = BlackImage

\* C14: for every mesh that load_obj accepted and create_vbo built, the vertex
\* stream and the normal stream have the same length, three times vertex_count.
C14_StreamLengths ==
    loader.stage = "built" =>
        /\ Len(loader.vertex_data) = Len(loader.normal_data)
        /\ Len(loader.vertex_data) = 3 * loader.vertex_count

\* C15: at the start of every 3D pass the graphics state is what it was at the
\* start of the first 3D pass: same matrix mode, same depth of the projection and
\* modelview stacks, same top matrices, depth test and lighting enabled, whatever
\* frames and events (reset included) came between.
C15_GLStateAtPass ==
    /\ hist.gl_first # <<>> =>
          /\ hist.gl_first[1] = GLState(StartupGL)
          /\ { "GL_DEPTH_TEST", "GL_LIGHTING" } \subseteq hist.gl_first[1].caps
    /\ pc = "draw3d" =>
          /\ gl.error = None
          /\ { "GL_DEPTH_TEST", "GL_LIGHTING" } \subseteq gl.caps
          /\ hist.gl_first # <<>> =>
                /\ gl.mode = hist.gl_first[1].mode
                /\ Len(gl.pj) = Len(hist.gl_first[1].pj)
                /\ Len(gl.mv) = Len(hist.gl_first[1].mv)
                /\ Top(gl.pj) = Top(hist.gl_first[1].pj)
                /\ Top(gl.mv) = Top(hist.gl_first[1].mv)
                /\ GLState(gl) = hist.gl_first[1]

\* a later 3D pass is about to start in the variant whose reset handler rebuilds
\* the matrix, a reset having been handled in this frame
C15_Witness ==
    /\ pc = "draw3d" /\ hist.gl_first # <<>>
    /\ variant = "main" /\ hist.last_event = "K_r"
    /\ GLState(gl) = hist.gl_first[1]

\* C16 as stated: between the end of a 3D pass and the start of the next, the 2D
\* overlay pass pushes exactly one projection and one modelview matrix and pops
\* exactly one of each.
OverlayCounts(n) ==
    /\ gl.pushes = [GL_PROJECTION |-> n, GL_MODELVIEW |-> n]
    /\ gl.pops = [GL_PROJECTION |-> n, GL_MODELVIEW |-> n]

C16_OverlayPushPop ==
    (pc = "flip") => OverlayCounts(1)

\* C16 amended: each of the two overlay functions pushes one projection and one
\* modelview matrix and pops one of each, so the overlay pass of a frame pushes
\* two of each and pops two of each, and nothing else pushes or pops before the
\* next 3D pass starts.
PushPopBy(g, h) ==
    /\ \A m \in { "GL_PROJECTION", "GL_MODELVIEW" } :
          /\ h.pushes[m] = g.pushes[m] + 1
          /\ h.pops[m] = g.pops[m] + 1
    /\ Len(h.pj) = Len(g.pj) /\ Len(h.mv) = Len(g.mv)
    /\ h.error = None

C16_OverlayAmended ==
    /\ pc = "overlay" =>
          /\ OverlayCounts(0)
          /\ PushPopBy(gl, draw_camera_overlay(gl))
          /\ PushPopBy(draw_camera_overlay(gl), draw_text_overlay(draw_camera_overlay(gl), variant))
    /\ (hist.gl_first # <<>> /\ pc \in { "flip", "loop_test", "events", "capture", "draw3d" }) =>
          OverlayCounts(2)

\* the next 3D pass is about to start after a frame whose overlays were drawn
C16_Witness ==
    /\ pc = "draw3d" /\ hist.gl_first # <<>>
    /\ OverlayCounts(2)

\* the state the event handlers work on, apart from the transform
Rest == <<use_hand_tracking, mouse_down, last_mouse_pos, running>>

\* the second of two resets handled one after the other in a frame
SecondResetHandled ==
    pc = "events" /\ hist.last_event = "K_r" /\ hist.resets = 2

\* C13 as stated: toggle and reset are idempotent and free of side effects:
\* handling the toggle twice leaves the mode that handling it once left,
\* handling reset twice leaves the state that handling it once left, and neither
\* handler issues a graphics call.
C13_Idempotent ==
    /\ SecondToggleHandled => use_hand_tracking = hist.before_rest[1]
    /\ SecondResetHandled => (xform = hist.before /\ Rest = hist.before_rest)
    /\ (pc = "events" /\ hist.last_event \in { "K_t", "K_r" }) => hist.gl_calls = <<>>

\* C13 amended: the toggle is an involution, not idempotent: one toggle negates
\* the mode and two restore it; it changes nothing else of the state, issues no
\* graphics call and no file I/O (main.py prints one line to the console).
\* Reset is idempotent: it zeroes the transform, changes nothing else, and a
\* second reset leaves everything as the first left it; it does no file I/O; in
\* main.py it issues glLoadIdentity, gluPerspective and glTranslatef, which
\* leave the graphics state as the set-up made it, in module/main.py no
\* graphics call.
C13_HandlersAmended ==
    /\ (pc = "events" /\ hist.last_event = "K_t") =>
          /\ use_hand_tracking = ~hist.before_rest[1]
          /\ xform = hist.before
          /\ <<mouse_down, last_mouse_pos, running>> =
                <<hist.before_rest[2], hist.before_rest[3], hist.before_rest[4]>>
          /\ GLState(gl) = hist.before_gl
          /\ hist.gl_calls = <<>>
          /\ hist.io_calls = IF variant = "main" THEN <<"print">> ELSE <<>>
    /\ SecondToggleHandled => use_hand_tracking = hist.snap[1]
    /\ (pc = "events" /\ hist.last_event = "K_r") =>
          /\ xform = Zero
          /\ Rest = hist.before_rest
          /\ GLState(gl) = hist.before_gl
          /\ GLState(gl) = GLState(StartupGL)
          /\ hist.io_calls = <<>>
          /\ hist.gl_calls = IF variant = "main"
                             THEN <<"glLoadIdentity", "gluPerspective", "glTranslatef">>
                             ELSE <<>>
    /\ SecondResetHandled => xform = hist.before

\* two toggles handled one after the other in main.py, the mode back at TRACKING
C13_Witness ==
    /\ SecondToggleHandled /\ hist.same_frame
    /\ variant = "main" /\ use_hand_tracking
    /\ hist.io_calls = <<"print">>

\* C17: each buffer create_vbo made is released exactly once, in both variants:
\* no buffer is ever deleted twice, once the loader has been destroyed each of
\* its buffers has been deleted once, and destroying a loader that never built
\* its buffers deletes nothing.
Created == { loader.vbo_vertices[i] : i \in 1..Len(loader.vbo_vertices) }
               \cup { loader.vbo_normals[i] : i \in 1..Len(loader.vbo_normals) }

Releases(id) == Cardinality({ i \in 1..Len(loader.deleted) : loader.deleted[i] = id })

C17_ReleasedOnce ==
    /\ \A id \in Created : Releases(id) <= 1
    /\ loader.del_calls >= 1 => \A id \in Created : Releases(id) = 1
    /\ Created = {} => loader.deleted = <<>>

====
